---- MODULE Spec2Model ----
(***************************************************************************)
(* PC-60FW BLE pulse-oximeter reader (src/src/main.rs).                    *)
(*                                                                         *)
(* One task runs main(): it prints the CSV header, then loops forever over *)
(* find_device() and, on success, one notification session.  The model     *)
(* keeps the position of that task (pc), the locals of find_device() and   *)
(* of the session, the lines written to stdout (out) and the fault that    *)
(* ended the process, if any.  The Bluetooth stack is the environment: the *)
(* results of its calls are drawn from small sets.                         *)
(*                                                                         *)
(* Abstractions: a printed data line is the pair (spo2, heartrate); the    *)
(* RFC3339 timestamp in front of it is left out.  Log lines are not kept.  *)
(***************************************************************************)
EXTENDS Integers, Sequences, FiniteSets, TLC

\* ------------------------------------------------------------------ bounds
MaxAdapters == 2
MaxPeripherals == 3
MaxQueue == 1
MaxLines == 1

\* --------------------------------------------------------------- constants
\* "OxySmart", as a sequence of characters
PERIPHERAL_NAME_MATCH_FILTER == <<"O", "x", "y", "S", "m", "a", "r", "t">>
NUS_CHARACTERISTIC_RX_UUID == "6e400003-b5a3-f393-e0a9-e50e24dcca9e"
\* the other characteristic of the Nordic UART service (TX), not the target
OTHER_UUID == "6e400002-b5a3-f393-e0a9-e50e24dcca9e"
\* vec!{0xaa, 0x55, 0x0f, 0x08, 0x01}
HEADER == <<170, 85, 15, 8, 1>>
\* println!("time,spo2,heartrate")
HEADER_LINE == [text |-> "time,spo2,heartrate"]

\* Option<T> as a sequence: None is empty, Some(x) holds x
None == <<>>
Some(x) == <<x>>

\* ------------------------------------------------------------ pure helpers
\* str::contains: needle occurs in hay as a contiguous substring
Contains(hay, needle) ==
  \E i \in 0..(Len(hay) - Len(needle)) :
     SubSeq(hay, i + 1, i + Len(needle)) = needle

\* properties.local_name.unwrap_or(address.to_string())
LocalName(per) ==
  IF per.local_name = None THEN per.address ELSE per.local_name[1]

\* !local_name.contains(PERIPHERAL_NAME_MATCH_FILTER) is the skip condition
NameMatches(per) == Contains(LocalName(per), PERIPHERAL_NAME_MATCH_FILTER)

\* (variant: the closure compares the UUID only)
IsTargetCharacteristic_UuidOnly(c) ==
  c.uuid = NUS_CHARACTERISTIC_RX_UUID

\* the closure given to find(): target UUID and the NOTIFY property
IsTargetCharacteristic(c) ==
  c.uuid = NUS_CHARACTERISTIC_RX_UUID /\ "NOTIFY" \in c.properties

RECURSIVE FindCharacteristic(_)
\* characteristics.iter().find(..): the first element that satisfies the
\* closure, None when there is none
FindCharacteristic(cs) ==
  IF cs = <<>> THEN None
  ELSE IF IsTargetCharacteristic(Head(cs)) THEN Some(Head(cs))
  ELSE FindCharacteristic(Tail(cs))

\* (variant: only the first four bytes are compared)
FrameMatches_Prefix4(value) ==
  Len(value) >= 7 /\ SubSeq(value, 1, 4) = SubSeq(HEADER, 1, 4)

\* value.len() >= 7 && value[..5] == HEADER
FrameMatches(value) == Len(value) >= 7 /\ SubSeq(value, 1, 5) = HEADER

\* (variant: nothing is suppressed)
IsNullData_Never(spo2, hr) == FALSE

\* spo2 == 0 && hr == 0
IsNullData(spo2, hr) == spo2 = 0 /\ hr = 0

\* println!("{},{},{}", time_iso8601, spo2, hr), without the timestamp
DataLine(spo2, hr) == [spo2 |-> spo2, heartrate |-> hr]

\* (variant: the two fields are read from the end of the value)
PrintedFor_Tail(value) ==
  IF FrameMatches(value)
  THEN LET spo2 == value[Len(value) - 1]
           hr == value[Len(value)]
       IN IF IsNullData(spo2, hr) THEN <<>> ELSE <<DataLine(spo2, hr)>>
  ELSE <<>>

\* what one notification value adds to stdout: (value[5], value[6]) are
\* the sixth and seventh bytes, value[6] and value[7] counting from 1
PrintedFor(value) ==
  IF FrameMatches(value)
  THEN LET spo2 == value[6]
           hr == value[7]
       IN IF IsNullData(spo2, hr) THEN <<>> ELSE <<DataLine(spo2, hr)>>
  ELSE <<>>

\* -------------------------------------------------------------- environment
\* Characteristic lists a peripheral may expose after service discovery.
RxNotify == [uuid |-> NUS_CHARACTERISTIC_RX_UUID, properties |-> {"NOTIFY"}]
RxReadOnly == [uuid |-> NUS_CHARACTERISTIC_RX_UUID, properties |-> {"READ"}]
TxWrite == [uuid |-> OTHER_UUID, properties |-> {"WRITE", "NOTIFY"}]

Name_OxySmartPro ==
  <<"O", "x", "y", "S", "m", "a", "r", "t", "P", "r", "o">>
Name_oxysmart == <<"o", "x", "y", "s", "m", "a", "r", "t">>
Address == <<"A", "A", ":", "0", "1">>

\* A peripheral as the Bluetooth stack presents it during one scan: its
\* advertised name, its connection state, and what connect(),
\* discover_services() and properties() will answer.
Peripheral(name, conn, props, connect, discover, chars) ==
  [local_name |-> name, address |-> Address, connected |-> conn,
   properties |-> props, connect |-> connect, discover |-> discover,
   characteristics |-> chars]

PeripheralKinds ==
  { Peripheral(Some(Name_oxysmart), FALSE, "ok", "ok", "ok", <<TxWrite, RxNotify>>),
    Peripheral(None, FALSE, "ok", "ok", "ok", <<TxWrite, RxNotify>>),
    Peripheral(Some(Name_OxySmartPro), FALSE, "err", "ok", "ok", <<TxWrite, RxNotify>>),
    Peripheral(Some(Name_OxySmartPro), FALSE, "ok", "err", "ok", <<TxWrite, RxNotify>>),
    Peripheral(Some(Name_OxySmartPro), FALSE, "ok", "stale", "ok", <<TxWrite, RxNotify>>),
    Peripheral(Some(Name_OxySmartPro), FALSE, "ok", "ok", "err", <<TxWrite, RxNotify>>),
    Peripheral(Some(Name_OxySmartPro), FALSE, "ok", "ok", "ok", <<TxWrite>>),
    Peripheral(Some(Name_OxySmartPro), FALSE, "ok", "ok", "ok", <<TxWrite, RxReadOnly>>),
    Peripheral(Some(Name_OxySmartPro), FALSE, "ok", "ok", "ok", <<TxWrite, RxNotify>>),
    Peripheral(Some(Name_OxySmartPro), TRUE, "ok", "err", "ok", <<RxNotify>>) }

RECURSIVE SeqsUpTo(_, _)
\* all sequences over S of length 0..n
SeqsUpTo(S, n) ==
  IF n = 0 THEN {<<>>}
  ELSE LET shorter == SeqsUpTo(S, n - 1)
       IN shorter \cup {Append(s, x) : s \in {t \in shorter : Len(t) = n - 1}, x \in S}

PeripheralLists == SeqsUpTo(PeripheralKinds, MaxPeripherals)


\* -------------------------------------------------------------------- state
VARIABLES
  pc,            \* position of the main task
  out,           \* lines printed to stdout, in order
  fault,         \* the call whose failure ended the process, or "none"
  adapter_list,  \* find_device: number of adapters manager.adapters() returned
  adapter,       \* find_device: index of the adapter being scanned
  peripherals,   \* find_device: what adapter.peripherals() returned
  peripheral,    \* find_device: index of the peripheral being examined
  examined,      \* find_device: the peripherals examined on this adapter, in order
  result,        \* what find_device returned, until main has matched on it
  bound,         \* main: (adaptor, peripheral, characteristic_rx) of the Ok arm
  sessions,      \* the triples with a live subscription
  notifQ,        \* notification_stream: values delivered and not yet taken
  notifClosed,   \* notification_stream: its source has closed
  eventsClosed,  \* disconnect_stream: its source has closed
  disconnectEvent, \* disconnect_stream: None, or Some(k) once the disconnection
                 \* of the bound peripheral was delivered to it, the first k
                 \* values of notifQ having been delivered before it
  value,         \* the value of the notification taken last in this session
  scenario       \* how far this session has followed the end-to-end scenario

vars ==
  <<pc, out, fault, adapter_list, adapter, peripherals, peripheral, examined,
    result, bound, sessions, notifQ, notifClosed, eventsClosed, disconnectEvent,
    value, scenario>>

scanVars == <<adapter_list, adapter, peripherals, peripheral, examined, result>>
streamVars == <<notifQ, notifClosed, eventsClosed, disconnectEvent, value, scenario>>

Ok(a, p, c) == [ok |-> TRUE, adapter |-> a, peripheral |-> <<a, p>>, characteristic |-> c]
Err(msg) == [ok |-> FALSE, err |-> msg]

Init ==
  /\ pc = "start"
  /\ out = <<>>
  /\ fault = "none"
  /\ adapter_list = 0
  /\ adapter = 0
  /\ peripherals = <<>>
  /\ peripheral = 0
  /\ examined = <<>>
  /\ result = None
  /\ bound = None
  /\ sessions = {}
  /\ notifQ = <<>>
  /\ notifClosed = FALSE
  /\ eventsClosed = FALSE
  /\ disconnectEvent = None
  /\ value = None
  /\ scenario = -1

\* The process ends: main returns the error of `call`, or panics in it.
Exit(call) ==
  /\ pc' = "exited"
  /\ fault' = call
  /\ sessions' = {}

\* --------------------------------------------------------------------- main
\* Manager::new().await? and the header line
Startup ==
  /\ pc = "start"
  /\ \E manager \in {"ok", "err"} :
       IF manager = "err"
       THEN /\ Exit("Manager::new")
            /\ UNCHANGED <<out, bound, scanVars, streamVars>>
       ELSE /\ out' = Append(out, HEADER_LINE)
            /\ pc' = "find_device"
            /\ UNCHANGED <<fault, sessions, bound, scanVars, streamVars>>

\* -------------------------------------------------------------- find_device
\* find_device returns r: its locals stay until main has matched on r
Return(r) ==
  /\ result' = Some(r)
  /\ pc' = "returned"

\* manager.adapters().await? and the empty check
ListAdapters ==
  /\ pc = "find_device"
  /\ \/ \* adapters() fails: `?` returns its error
        /\ Return(Err("manager.adapters"))
        /\ UNCHANGED <<adapter_list, adapter>>
     \/ \E adapters \in 0..MaxAdapters :
          IF adapters = 0
          THEN /\ Return(Err("No adapters found"))
               /\ UNCHANGED <<adapter_list, adapter>>
          ELSE /\ adapter_list' = adapters
               /\ adapter' = 1
               /\ pc' = "scan"
               /\ UNCHANGED result
  /\ UNCHANGED <<out, fault, peripherals, peripheral, examined, bound, sessions, streamVars>>

\* One adapter: start_scan(..).expect(..), the dwell, peripherals().await?
\* and the empty check
ScanAdapter ==
  /\ pc = "scan"
  /\ \/ \* start_scan fails: expect() panics
        /\ Exit("panic: start_scan")
        /\ UNCHANGED <<peripherals, peripheral, examined, result>>
     \/ \* peripherals() fails: `?` returns its error
        /\ Return(Err("adapter.peripherals"))
        /\ UNCHANGED <<peripherals, peripheral, examined, fault, sessions>>
     \/ \E listed \in PeripheralLists :
          IF listed = <<>>
          THEN /\ Return(Err("No BLE peripheral devices found"))
               /\ UNCHANGED <<peripherals, peripheral, examined, fault, sessions>>
          ELSE /\ peripherals' = listed
               /\ peripheral' = 1
               /\ examined' = <<>>
               /\ pc' = "peripheral"
               /\ UNCHANGED <<result, fault, sessions>>
  /\ UNCHANGED <<out, adapter_list, adapter, bound, streamVars>>

\* peripheral.connect() is called on per
ConnectCalled(per) ==
  per.properties = "ok" /\ NameMatches(per) /\ ~per.connected

\* The second peripheral.is_connected(): the state connect() left
ConnectedAfter(per) ==
  IF per.connected THEN TRUE ELSE per.connect = "ok"

\* (variant: a failed discover_services() skips the peripheral)
Verdict_DiscoverSkips(per) ==
  IF per.properties = "err" THEN "err: properties"
  ELSE IF ~NameMatches(per) THEN "skip: name"
  ELSE IF ~per.connected /\ per.connect = "err" THEN "skip: connect"
  ELSE IF ~ConnectedAfter(per) THEN "skip: not connected"
  ELSE IF per.discover = "err" THEN "skip: characteristic"
  ELSE IF FindCharacteristic(per.characteristics) = None THEN "skip: characteristic"
  ELSE "return"

\* (variant: a failed connect() ends find_device like a failed properties())
Verdict_ConnectAborts(per) ==
  IF per.properties = "err" THEN "err: properties"
  ELSE IF ~NameMatches(per) THEN "skip: name"
  ELSE IF ~per.connected /\ per.connect = "err" THEN "err: properties"
  ELSE IF ~ConnectedAfter(per) THEN "skip: not connected"
  ELSE IF per.discover = "err" THEN "err: discover_services"
  ELSE IF FindCharacteristic(per.characteristics) = None THEN "skip: characteristic"
  ELSE "return"

\* The body of the peripheral loop for per, as the way it leaves the body
Verdict(per) ==
  IF per.properties = "err" THEN "err: properties"
  ELSE IF ~NameMatches(per) THEN "skip: name"
  ELSE IF ~per.connected /\ per.connect = "err" THEN "skip: connect"
  ELSE IF ~ConnectedAfter(per) THEN "skip: not connected"
  ELSE IF per.discover = "err" THEN "err: discover_services"
  ELSE IF FindCharacteristic(per.characteristics) = None THEN "skip: characteristic"
  ELSE "return"

\* (variant: the connection is closed before the `continue` of a candidate
\* without the characteristic)
AfterExamined_Releases(per) ==
  IF Verdict(per) = "skip: characteristic"
  THEN [per EXCEPT !.connected = FALSE]
  ELSE IF ConnectCalled(per) /\ Verdict(per) # "skip: connect"
  THEN [per EXCEPT !.connected = ConnectedAfter(per)]
  ELSE per

\* per as one pass of the peripheral loop leaves it: connected if connect()
\* was called and worked; nothing in the loop closes a connection
AfterExamined(per) ==
  IF ConnectCalled(per) /\ Verdict(per) # "skip: connect"
  THEN [per EXCEPT !.connected = ConnectedAfter(per)]
  ELSE per

\* `continue` in the peripheral loop, the list and the examined peripherals
\* being now as given: the next peripheral, else the next adapter (the list
\* of this one is dropped), else the Err after both loops
Continue(list, seen) ==
  IF peripheral < Len(peripherals)
  THEN /\ peripheral' = peripheral + 1
       /\ peripherals' = list
       /\ examined' = seen
       /\ pc' = "peripheral"
       /\ UNCHANGED <<adapter, result>>
  ELSE IF adapter < adapter_list
  THEN /\ adapter' = adapter + 1
       /\ peripherals' = <<>>
       /\ examined' = <<>>
       /\ peripheral' = 0
       /\ pc' = "scan"
       /\ UNCHANGED result
  ELSE /\ Return(Err("No matching peripheral found"))
       /\ peripherals' = list
       /\ examined' = seen
       /\ UNCHANGED <<adapter, peripheral>>

\* One pass of the peripheral loop
ExaminePeripheral ==
  /\ pc = "peripheral"
  /\ LET per == peripherals[peripheral]
         verdict == Verdict(per)
         list == [peripherals EXCEPT ![peripheral] = AfterExamined(per)]
         seen == Append(examined,
                   [index |-> peripheral, verdict |-> verdict,
                    connect |-> ConnectCalled(per)])
     IN IF verdict = "return"
        THEN /\ Return(Ok(adapter, peripheral,
                          FindCharacteristic(per.characteristics)[1]))
             /\ peripherals' = list
             /\ examined' = seen
             /\ UNCHANGED <<adapter, peripheral>>
        ELSE IF verdict = "err: properties"
        THEN /\ Return(Err("peripheral.properties"))
             /\ peripherals' = list
             /\ examined' = seen
             /\ UNCHANGED <<adapter, peripheral>>
        ELSE IF verdict = "err: discover_services"
        THEN /\ Return(Err("peripheral.discover_services"))
             /\ peripherals' = list
             /\ examined' = seen
             /\ UNCHANGED <<adapter, peripheral>>
        ELSE Continue(list, seen)
  /\ UNCHANGED <<out, fault, adapter_list, bound, sessions, streamVars>>

\* (variant: the header line is printed in the Ok arm, once per session)
MatchResult_PrintsHeader ==
  /\ pc = "returned"
  /\ IF result[1].ok
     THEN /\ bound' = Some([adaptor |-> result[1].adapter,
                            peripheral |-> result[1].peripheral,
                            characteristic_rx |-> result[1].characteristic])
          /\ out' = Append(out, HEADER_LINE)
          /\ pc' = "subscribe"
     ELSE /\ pc' = "find_device"
          /\ UNCHANGED <<bound, out>>
  /\ adapter_list' = 0
  /\ adapter' = 0
  /\ peripherals' = <<>>
  /\ peripheral' = 0
  /\ examined' = <<>>
  /\ result' = None
  /\ UNCHANGED <<fault, sessions, streamVars>>

\* match find_device(&manager).await: the Ok arm binds the triple, the Err
\* arm logs and goes round the loop; find_device's locals are gone
MatchResult ==
  /\ pc = "returned"
  /\ IF result[1].ok
     THEN /\ bound' = Some([adaptor |-> result[1].adapter,
                            peripheral |-> result[1].peripheral,
                            characteristic_rx |-> result[1].characteristic])
          /\ pc' = "subscribe"
     ELSE /\ pc' = "find_device"
          /\ UNCHANGED bound
  /\ adapter_list' = 0
  /\ adapter' = 0
  /\ peripherals' = <<>>
  /\ peripheral' = 0
  /\ examined' = <<>>
  /\ result' = None
  /\ UNCHANGED <<out, fault, sessions, streamVars>>


\* ------------------------------------------------------------------ session
\* Notification values the peripheral may send: well-formed frames with and
\* without a trailing byte, every proper prefix of one, and frames with one
\* header byte wrong.
SpO2Values == {0, 95}
HeartRateValues == {0, 70}
Trailers == {<<>>, <<254>>}

WellFormedFrames ==
  {HEADER \o <<s, h>> \o t : s \in SpO2Values, h \in HeartRateValues, t \in Trailers}

TruncatedFrames ==
  {SubSeq(HEADER \o <<95, 70>>, 1, n) : n \in 0..6}

CorruptFrames ==
  {[HEADER \o <<95, 70>> \o t EXCEPT ![i] = 0] : i \in 1..5, t \in Trailers}

Frames == WellFormedFrames \cup TruncatedFrames \cup CorruptFrames

\* CentralEvents of the bound adapter: (dis)connections of its peripherals
Events ==
  [type : {"DeviceDisconnected", "DeviceConnected"},
   id : {<<bound[1].adaptor, i>> : i \in 1..MaxPeripherals}]

\* The step the end-to-end scenario is at after the session took `item`:
\* an invalid frame, then the frame carrying (95, 70), then the
\* disconnection of the bound peripheral; -1 once the session has left it
ScenarioAfter(item) ==
  IF scenario = 0 /\ item.kind = "frame"
       /\ (Len(item.value) < 7 \/ SubSeq(item.value, 1, 5) # HEADER)
  THEN 1
  ELSE IF scenario = 1 /\ item.kind = "frame"
       /\ item.value \in {HEADER \o <<95, 70>> \o t : t \in Trailers}
  THEN 2
  ELSE IF scenario = 2 /\ item.kind = "event"
       /\ item.event = [type |-> "DeviceDisconnected", id |-> bound[1].peripheral]
  THEN 3
  ELSE -1

\* peripheral.subscribe(&characteristic_rx).await?
Subscribe ==
  /\ pc = "subscribe"
  /\ \E subscribe \in {"ok", "err"} :
       IF subscribe = "err"
       THEN Exit("peripheral.subscribe")
       ELSE /\ sessions' = sessions \cup {bound[1]}
            /\ pc' = "notifications"
            /\ UNCHANGED fault
  /\ UNCHANGED <<out, bound, scanVars, streamVars>>

\* peripheral.notifications().await?
OpenNotifications ==
  /\ pc = "notifications"
  /\ \E notifications \in {"ok", "err"} :
       IF notifications = "err"
       THEN /\ Exit("peripheral.notifications")
            /\ UNCHANGED <<notifQ, notifClosed>>
       ELSE /\ notifQ' = <<>>
            /\ notifClosed' = FALSE
            /\ pc' = "events"
            /\ UNCHANGED <<fault, sessions>>
  /\ UNCHANGED <<out, bound, scanVars, eventsClosed, disconnectEvent, value, scenario>>

\* adaptor.events().await?, then the select loop is entered
OpenEvents ==
  /\ pc = "events"
  /\ \E events \in {"ok", "err"} :
       IF events = "err"
       THEN /\ Exit("adaptor.events")
            /\ UNCHANGED <<eventsClosed, disconnectEvent, scenario>>
       ELSE /\ eventsClosed' = FALSE
            /\ disconnectEvent' = None
            /\ scenario' = IF out = <<HEADER_LINE>> THEN 0 ELSE -1
            /\ pc' = "streaming"
            /\ UNCHANGED <<fault, sessions>>
  /\ UNCHANGED <<out, bound, scanVars, notifQ, notifClosed, value>>

\* The peripheral notifies: one more value waits in the stream
DeliverFrame ==
  /\ pc \in {"events", "streaming"}
  /\ ~notifClosed
  /\ Len(notifQ) < MaxQueue
  /\ (Len(out) - 1) + Len(notifQ) < MaxLines
  /\ \E f \in Frames : notifQ' = Append(notifQ, f)
  /\ UNCHANGED <<pc, out, fault, bound, sessions, scanVars,
                 notifClosed, eventsClosed, disconnectEvent, value, scenario>>

\* The source of the notification stream closes
CloseNotifications ==
  /\ pc \in {"events", "streaming"}
  /\ ~notifClosed
  /\ notifClosed' = TRUE
  /\ UNCHANGED <<pc, out, fault, bound, sessions, scanVars,
                 notifQ, eventsClosed, disconnectEvent, value, scenario>>

\* The source of the adapter's event stream closes
CloseEvents ==
  /\ pc = "streaming"
  /\ ~eventsClosed
  /\ eventsClosed' = TRUE
  /\ UNCHANGED <<pc, out, fault, bound, sessions, scanVars,
                 notifQ, notifClosed, disconnectEvent, value, scenario>>

\* The adapter reports the disconnection of the bound peripheral: the event
\* waits in disconnect_stream, behind it nothing that matters
DeliverDisconnect ==
  /\ pc = "streaming"
  /\ ~eventsClosed
  /\ disconnectEvent = None
  /\ disconnectEvent' = Some(Len(notifQ))
  /\ UNCHANGED <<pc, out, fault, bound, sessions, scanVars,
                 notifQ, notifClosed, eventsClosed, value, scenario>>

\* select! takes notification_stream.next() = Some(ValueNotification{value})
SelectNotification ==
  /\ pc = "streaming"
  /\ notifQ # <<>>
  /\ LET taken == Head(notifQ)
     IN /\ notifQ' = Tail(notifQ)
        /\ value' = Some(taken)
        /\ out' = out \o PrintedFor(taken)
        /\ scenario' = ScenarioAfter([kind |-> "frame", value |-> taken])
  /\ disconnectEvent' =
       IF disconnectEvent # None /\ disconnectEvent[1] > 0
       THEN Some(disconnectEvent[1] - 1)
       ELSE disconnectEvent
  /\ UNCHANGED <<pc, fault, bound, sessions, scanVars, notifClosed, eventsClosed>>

\* select! takes notification_stream.next() = None: break
SelectNotificationEnd ==
  /\ pc = "streaming"
  /\ notifQ = <<>>
  /\ notifClosed
  /\ pc' = "disconnect"
  /\ scenario' = -1
  /\ UNCHANGED <<out, fault, bound, sessions, scanVars,
                 notifQ, notifClosed, eventsClosed, disconnectEvent, value>>

\* SelectEvent without the comparison of periph_id with peripheral.id()
SelectEvent_AnyDisconnected ==
  /\ pc = "streaming"
  /\ \E event \in Events :
       /\ IF event = [type |-> "DeviceDisconnected", id |-> bound[1].peripheral]
          THEN disconnectEvent # None
          ELSE ~eventsClosed
       /\ IF event.type = "DeviceDisconnected"
          THEN pc' = "disconnect"
          ELSE pc' = pc
       /\ scenario' = ScenarioAfter([kind |-> "event", event |-> event])
  /\ UNCHANGED <<out, fault, bound, sessions, scanVars,
                 notifQ, notifClosed, eventsClosed, disconnectEvent, value>>

\* select! takes disconnect_stream.next() = Some(event): break on the
\* disconnection of the bound peripheral, nothing otherwise.  That event is
\* taken once it was delivered; any other is taken as it arrives.
SelectEvent ==
  /\ pc = "streaming"
  /\ \E event \in Events :
       /\ IF event = [type |-> "DeviceDisconnected", id |-> bound[1].peripheral]
          THEN disconnectEvent # None
          ELSE ~eventsClosed
       /\ IF event.type = "DeviceDisconnected" /\ event.id = bound[1].peripheral
          THEN pc' = "disconnect"
          ELSE pc' = pc
       /\ scenario' = ScenarioAfter([kind |-> "event", event |-> event])
  /\ UNCHANGED <<out, fault, bound, sessions, scanVars,
                 notifQ, notifClosed, eventsClosed, disconnectEvent, value>>

\* (variant: the end of disconnect_stream breaks the loop like the end of
\* notification_stream)
SelectEventEnd_Breaks ==
  /\ pc = "streaming"
  /\ eventsClosed
  /\ disconnectEvent = None
  /\ pc' = "disconnect"
  /\ scenario' = ScenarioAfter([kind |-> "end"])
  /\ UNCHANGED <<out, fault, bound, sessions, scanVars,
                 notifQ, notifClosed, eventsClosed, disconnectEvent, value>>

\* select! takes disconnect_stream.next() = None: the `_ => {}` arm
SelectEventEnd ==
  /\ pc = "streaming"
  /\ eventsClosed
  /\ disconnectEvent = None
  /\ scenario' = ScenarioAfter([kind |-> "end"])
  /\ UNCHANGED <<pc, out, fault, bound, sessions, scanVars,
                 notifQ, notifClosed, eventsClosed, disconnectEvent, value>>

\* (variant: the notification stream outlives the Ok arm, with what waits
\* in it)
Disconnect_KeepsStream ==
  /\ pc = "disconnect"
  /\ \E disconnect \in {"ok", "err"} :
       IF disconnect = "err"
       THEN Exit("peripheral.disconnect")
       ELSE /\ sessions' = sessions \ {bound[1]}
            /\ pc' = "find_device"
            /\ UNCHANGED fault
  /\ bound' = None
  /\ notifClosed' = FALSE
  /\ eventsClosed' = FALSE
  /\ disconnectEvent' = None
  /\ value' = None
  /\ scenario' = -1
  /\ UNCHANGED <<out, scanVars, notifQ>>

\* (variant: the subscription outlives the Ok arm)
Disconnect_KeepsSession ==
  /\ pc = "disconnect"
  /\ \E disconnect \in {"ok", "err"} :
       IF disconnect = "err"
       THEN Exit("peripheral.disconnect")
       ELSE /\ pc' = "find_device"
            /\ UNCHANGED <<fault, sessions>>
  /\ bound' = None
  /\ notifQ' = <<>>
  /\ notifClosed' = FALSE
  /\ eventsClosed' = FALSE
  /\ disconnectEvent' = None
  /\ value' = None
  /\ scenario' = -1
  /\ UNCHANGED <<out, scanVars>>

\* peripheral.disconnect().await? after the select loop; the end of the Ok
\* arm drops the triple and both streams
Disconnect ==
  /\ pc = "disconnect"
  /\ \E disconnect \in {"ok", "err"} :
       IF disconnect = "err"
       THEN Exit("peripheral.disconnect")
       ELSE /\ sessions' = sessions \ {bound[1]}
            /\ pc' = "find_device"
            /\ UNCHANGED fault
  /\ bound' = None
  /\ notifQ' = <<>>
  /\ notifClosed' = FALSE
  /\ eventsClosed' = FALSE
  /\ disconnectEvent' = None
  /\ value' = None
  /\ scenario' = -1
  /\ UNCHANGED <<out, scanVars>>

Next ==
  \/ Startup
  \/ ListAdapters
  \/ ScanAdapter
  \/ ExaminePeripheral
  \/ MatchResult
  \/ Subscribe
  \/ OpenNotifications
  \/ OpenEvents
  \/ DeliverFrame
  \/ CloseNotifications
  \/ CloseEvents
  \/ DeliverDisconnect
  \/ SelectNotification
  \/ SelectNotificationEnd
  \/ SelectEvent
  \/ SelectEventEnd
  \/ Disconnect

Spec == Init /\ [][Next]_vars

\* select! takes the disconnection of the bound peripheral
SelectDisconnect == SelectEvent /\ pc' = "disconnect"

\* select! picks at random among the branches that are ready, so a branch
\* that stays ready is taken in the end; the statement after the loop runs
\* once the loop is left
Fairness ==
  /\ WF_vars(SelectDisconnect)
  /\ WF_vars(SelectNotificationEnd)
  /\ WF_vars(Disconnect)

FairSpec == Spec /\ Fairness


\* =================================================================== claims
\* The step in which select! takes the notification at the head of the stream
TakesNotification == pc = "streaming" /\ notifQ # <<>> /\ notifQ' = Tail(notifQ)

\* f is shorter than 7 bytes or one of its first 5 bytes is not the header's
ShortOrWrongHeader(f) == Len(f) < 7 \/ \E i \in 1..5 : f[i] # HEADER[i]

\* f has at least 7 bytes and starts with the 5 header bytes
HasHeader(f) == Len(f) >= 7 /\ \A i \in 1..5 : f[i] = HEADER[i]

\* C2: a notification value shorter than 7 bytes, or whose first 5 bytes are
\* not the header, prints nothing, raises no error and leaves the session
\* running.
C2_InvalidFrameIgnored ==
  [][(TakesNotification /\ ShortOrWrongHeader(Head(notifQ)))
       => (out' = out /\ pc' = "streaming" /\ fault' = "none"
           /\ sessions' = sessions)]_vars

\* A session that has just taken a 7-byte-or-longer value whose fifth byte
\* alone is wrong, and has printed nothing for it
C2_Witness ==
  /\ pc = "streaming"
  /\ value # None
  /\ Len(value[1]) >= 7
  /\ SubSeq(value[1], 1, 4) = SubSeq(HEADER, 1, 4)
  /\ value[1][5] # HEADER[5]
  /\ out = <<HEADER_LINE>>

\* C3: a value of 7 or more bytes that starts with the header and whose
\* bytes 5 and 6 (counting from 0) are not both zero prints exactly one line,
\* with spo2 = byte 5 and heartrate = byte 6; the bytes after them do not
\* matter: the value prints what its first 7 bytes print.
C3_ValidFrameDecoded ==
  [][(TakesNotification /\ HasHeader(Head(notifQ))
        /\ ~(Head(notifQ)[6] = 0 /\ Head(notifQ)[7] = 0))
       => (/\ out' = Append(out, [spo2 |-> Head(notifQ)[6],
                                  heartrate |-> Head(notifQ)[7]])
           /\ out' = out \o PrintedFor(SubSeq(Head(notifQ), 1, 7)))]_vars

\* A session that has just taken an 8-byte value with the header and has
\* printed its bytes 5 and 6, which differ from its last two bytes
C3_Witness ==
  /\ pc = "streaming"
  /\ value # None
  /\ Len(value[1]) = 8
  /\ HasHeader(value[1])
  /\ value[1][7] # value[1][8]
  /\ out = <<HEADER_LINE, [spo2 |-> value[1][6], heartrate |-> value[1][7]]>>

\* a printed data line with spo2 = 0 and heartrate = 0
NullLineIn(lines) ==
  \E i \in 2..Len(lines) : lines[i] = [spo2 |-> 0, heartrate |-> 0]

\* C4: a value with the header whose spo2 and heartrate bytes are both zero
\* prints nothing and does not end the session; no line with spo2 = 0 and
\* heartrate = 0 together is ever printed.
C4_NullDataSuppressed ==
  [][/\ ~NullLineIn(out')
     /\ (TakesNotification /\ HasHeader(Head(notifQ))
           /\ Head(notifQ)[6] = 0 /\ Head(notifQ)[7] = 0)
          => (out' = out /\ pc' = "streaming" /\ fault' = "none"
              /\ sessions' = sessions)]_vars

\* A session that has just taken a value with the header and two zero
\* fields, is still running and has printed nothing for it
C4_Witness ==
  /\ pc = "streaming"
  /\ value # None
  /\ HasHeader(value[1])
  /\ value[1][6] = 0
  /\ value[1][7] = 0
  /\ out = <<HEADER_LINE>>
  /\ sessions = {bound[1]}


\* C1: a session that takes an invalid frame, then the frame carrying
\* (95, 70), then the disconnection of its peripheral, has printed the header
\* line and exactly one data line, 95 and 70, and ends without error: the
\* loop goes back to find_device instead of leaving main.
C1_EndToEnd ==
  [][(scenario = 3 /\ pc = "disconnect")
       => (/\ out = <<HEADER_LINE, [spo2 |-> 95, heartrate |-> 70]>>
           /\ pc' = "find_device"
           /\ fault' = "none")]_vars

\* ---------------------------------------------------------------- scanner
\* per is or can be connected
Connects(per) == per.connected \/ per.connect = "ok"

\* per exposes a characteristic with the target UUID and NOTIFY
HasTargetCharacteristic(per) ==
  \E i \in 1..Len(per.characteristics) :
     /\ per.characteristics[i].uuid = NUS_CHARACTERISTIC_RX_UUID
     /\ "NOTIFY" \in per.characteristics[i].properties

\* per matches the name filter, connects and has the characteristic
Usable(per) ==
  /\ per.properties = "ok"
  /\ NameMatches(per)
  /\ Connects(per)
  /\ per.discover = "ok"
  /\ HasTargetCharacteristic(per)

\* per ends the whole attempt: its properties cannot be read, or its
\* services cannot be discovered once it is connected
AbortsAttempt(per) ==
  \/ per.properties = "err"
  \/ NameMatches(per) /\ Connects(per) /\ per.discover = "err"

\* the index of the first usable peripheral of list, 0 when there is none
FirstUsable(list) ==
  LET usable == {i \in 1..Len(list) : Usable(list[i])}
  IN IF usable = {} THEN 0
     ELSE CHOOSE i \in usable : \A j \in usable : i <= j

C6_FirstUsableAcrossAdapters ==
  (pc = "returned" /\ ~result[1].ok /\ adapter_list > 0
     /\ result[1].err # "peripheral.discover_services")
    => adapter = adapter_list

\* ------------------------------------------------------------------- main
\* C7: at most one session is live, and none is while find_device runs or
\* subscribe is about to be called.
C7_AtMostOneSession ==
  /\ Cardinality(sessions) <= 1
  /\ sessions # {} => (bound # None /\ sessions = {bound[1]})
  /\ pc \in {"start", "find_device", "scan", "peripheral", "returned", "subscribe"}
       => sessions = {}

\* A session of a later pass of the loop has subscribed: a data line of an
\* earlier session is on stdout
C7_Witness ==
  /\ pc = "notifications"
  /\ Cardinality(sessions) = 1
  /\ Len(out) = 2

\* C8: the header line is printed once, before find_device is first called
\* and before any data line, and never again.
C8_HeaderOnce ==
  /\ pc = "start" => out = <<>>
  /\ fault = "Manager::new" => out = <<>>
  /\ (pc # "start" /\ fault # "Manager::new")
       => /\ Len(out) >= 1
          /\ out[1] = HEADER_LINE
          /\ \A i \in 2..Len(out) : out[i] # HEADER_LINE

\* A later session is streaming, has taken nothing yet, and stdout holds the
\* header and one data line of an earlier session
C8_Witness ==
  /\ pc = "streaming"
  /\ value = None
  /\ Len(out) = 2
  /\ out[1] = HEADER_LINE
  /\ out[2] # HEADER_LINE

\* C9: a failure of the disconnect request at the end of a session is not
\* fatal: main does not end on it.
C9_DisconnectFailureNotFatal ==
  ~(pc = "exited" /\ fault = "peripheral.disconnect")

\* C10: once the loop is entered, a failed subscribe is the only failure
\* that ends main.
C10_OnlySubscribeFatal ==
  (pc = "exited" /\ fault # "Manager::new") => fault = "peripheral.subscribe"

\* ------------------------------------------------- failures of find_device
\* find_device is running: from its call to its return
Discovering == pc \in {"find_device", "scan", "peripheral"}

\* C11: no failure of a discovery attempt ends the loop: no step taken while
\* find_device runs ends main, and after find_device has returned an error
\* the next step calls find_device again.
C11_DiscoveryFailureRestarts ==
  [][/\ Discovering => pc' # "exited"
     /\ (pc = "returned" /\ ~result[1].ok)
          => (pc' = "find_device" /\ fault' = "none")]_vars

\* C12: a failure to list the peripherals of an adapter does not end the
\* attempt while another adapter is left: find_device returns that error
\* only from the last adapter.
C12_EnumerationFailureSkipsAdapter ==
  (pc = "returned" /\ result[1] = Err("adapter.peripherals"))
    => adapter = adapter_list

\* ------------------------------------------------------ end of a session
\* C13: once the disconnection of the bound peripheral waits in
\* disconnect_stream of a streaming session, the session ends and
\* find_device is called again, whatever notifications keep arriving.
C13_DisconnectionRestarts ==
  (pc = "streaming" /\ disconnectEvent # None) ~> (pc = "find_device")

\* C14: of the lifecycle events only the disconnection of the bound
\* peripheral ends the session: a streaming session ends only when that
\* event has been delivered or the notification stream is exhausted, and a
\* step that leaves the notification stream alone and the session streaming
\* changes neither stdout nor the subscription.
C14_OnlyBoundDisconnectionEnds ==
  [][pc = "streaming"
       => /\ pc' = "disconnect"
               => \/ disconnectEvent # None
                  \/ notifQ = <<>> /\ notifClosed
          /\ (pc' = "streaming" /\ notifQ' = notifQ)
               => (out' = out /\ sessions' = sessions /\ bound' = bound)]_vars

\* The first session took an event that is not the disconnection of its
\* peripheral (nothing else moves the scenario off its start while no value
\* was taken and disconnect_stream is open) and is still streaming
C14_Witness ==
  /\ pc = "streaming"
  /\ out = <<HEADER_LINE>>
  /\ value = None
  /\ ~eventsClosed
  /\ disconnectEvent = None
  /\ scenario = -1
  /\ sessions = {bound[1]}

\* C15: once the notification stream of a streaming session is exhausted
\* (closed, nothing left in it), the session ends, disconnect is called and
\* find_device is called again.
C15_ExhaustionRestarts ==
  (pc = "streaming" /\ notifClosed /\ notifQ = <<>>) ~> (pc = "find_device")

\* ------------------------------------------------ candidates of find_device
\* per is a candidate whose services cannot be discovered: its properties
\* are read, its name matches, it is connected, discover_services() fails
DiscoveryFails(per) ==
  /\ per.properties = "ok"
  /\ NameMatches(per)
  /\ Connects(per)
  /\ per.discover = "err"

\* C16: a candidate whose service discovery fails ends the whole attempt:
\* once it is examined find_device has returned that error, it is the last
\* peripheral examined, and the peripherals after it are as they were listed.
C16_ServiceDiscoveryAborts ==
  \A i \in 1..Len(examined) :
    DiscoveryFails(peripherals[i])
      => /\ pc = "returned"
         /\ result = Some(Err("peripheral.discover_services"))
         /\ peripheral = i
         /\ Len(examined) = i
         /\ \A q \in (i + 1)..Len(peripherals) :
              peripherals[q] \in PeripheralKinds

\* find_device has returned the service-discovery error of a candidate
\* that is followed, on the first of two adapters, by a usable peripheral
C16_Witness ==
  /\ pc = "returned"
  /\ result = Some(Err("peripheral.discover_services"))
  /\ adapter < adapter_list
  /\ peripheral < Len(peripherals)
  /\ DiscoveryFails(peripherals[peripheral])
  /\ Usable(peripherals[peripheral + 1])

\* per is a candidate that connects and whose services are discovered, none
\* of them holding the target characteristic
LacksCharacteristic(per) ==
  /\ per.properties = "ok"
  /\ NameMatches(per)
  /\ Connects(per)
  /\ per.discover = "ok"
  /\ ~HasTargetCharacteristic(per)

\* C17: a connected candidate passed over for want of the characteristic
\* stays connected while find_device goes on, and no session is bound to it.
C17_RejectedStaysConnected ==
  \A i \in 1..Len(examined) :
    LacksCharacteristic(peripherals[i])
      => /\ peripherals[i].connected
         /\ sessions = {}
         /\ (pc = "returned" /\ result[1].ok)
              => result[1].peripheral # <<adapter, i>>

\* find_device is at the second peripheral of an adapter, the first being
\* one it connected and passed over: one connection, no session
C17_Witness ==
  /\ pc = "peripheral"
  /\ peripheral = 2
  /\ LacksCharacteristic(peripherals[1])
  /\ ~(peripherals[1] \in PeripheralKinds)
  /\ peripherals[1].connected
  /\ sessions = {}

\* c carries the target UUID and the NOTIFY property
NotifyingRx(c) ==
  c.uuid = NUS_CHARACTERISTIC_RX_UUID /\ "NOTIFY" \in c.properties

\* C18: a session is bound to one characteristic, which carries the target
\* UUID and NOTIFY; find_device returns no triple whose characteristic
\* fails either, and the one it returns is a characteristic of the
\* peripheral it returns.
C18_BoundCharacteristic ==
  /\ (pc = "returned" /\ result[1].ok)
       => /\ NotifyingRx(result[1].characteristic)
          /\ result[1].peripheral = <<adapter, peripheral>>
          /\ \E i \in 1..Len(peripherals[peripheral].characteristics) :
               peripherals[peripheral].characteristics[i]
                 = result[1].characteristic
  /\ bound # None => NotifyingRx(bound[1].characteristic_rx)
  /\ \A s \in sessions :
       /\ NotifyingRx(s.characteristic_rx)
       /\ bound = Some(s)

\* A session streams and has taken a value from the stream of its
\* characteristic
C18_Witness ==
  /\ pc = "streaming"
  /\ sessions = {bound[1]}
  /\ NotifyingRx(bound[1].characteristic_rx)
  /\ value # None

\* ---------------------------------------------- the two streams of select!
\* f is a reading that is printed when taken: the header, and spo2 and
\* heartrate not both zero
Accepted(f) == HasHeader(f) /\ ~(f[6] = 0 /\ f[7] = 0)

\* C19 as stated: no reading is lost at the end of a session.  When the
\* session ends on the disconnection of its peripheral, none of the values
\* delivered before that event and still waiting in the notification stream
\* is one that would be printed.
C19_NoReadingLost ==
  [][(pc = "streaming" /\ pc' = "disconnect" /\ disconnectEvent # None)
       => \A i \in 1..disconnectEvent[1] : ~Accepted(notifQ[i])]_vars

\* C19, amended: a reading delivered before the disconnection of the bound
\* peripheral is printed if select! takes it before it takes that event;
\* the step that ends the session prints nothing and takes nothing, and
\* what still waits in the notification stream then is dropped unprinted.
C19_PendingReadingsDropped ==
  [][/\ (TakesNotification /\ disconnectEvent # None /\ disconnectEvent[1] > 0
           /\ Accepted(Head(notifQ)))
          => out' = Append(out, [spo2 |-> Head(notifQ)[6],
                                 heartrate |-> Head(notifQ)[7]])
     /\ (pc = "streaming" /\ pc' = "disconnect")
          => (out' = out /\ notifQ' = notifQ)
     /\ pc = "disconnect"
          => (out' = out /\ notifQ' = <<>>)]_vars

\* The session has ended on the disconnection of its peripheral with a
\* reading in the notification stream that was delivered before that event
\* and is not printed
C19_Witness ==
  /\ pc = "disconnect"
  /\ disconnectEvent # None
  /\ disconnectEvent[1] >= 1
  /\ notifQ # <<>>
  /\ Accepted(notifQ[1])
  /\ out = <<HEADER_LINE>>

\* C20: the end of disconnect_stream does not end the session.  With that
\* stream closed the session stays streaming or ends; it ends only on the
\* disconnection of its peripheral, delivered before the close, or on the
\* end of the notification stream; and a value taken meanwhile is printed
\* as ever, the session going on.
C20_EventStreamEndKeepsSession ==
  [][(pc = "streaming" /\ eventsClosed)
       => /\ pc' \in {"streaming", "disconnect"}
          /\ eventsClosed'
          /\ fault' = "none"
          /\ pc' = "disconnect"
               => \/ disconnectEvent # None
                  \/ notifQ = <<>> /\ notifClosed
          /\ TakesNotification
               => /\ pc' = "streaming"
                  /\ sessions' = sessions
                  /\ out' = IF Accepted(Head(notifQ))
                            THEN Append(out, [spo2 |-> Head(notifQ)[6],
                                              heartrate |-> Head(notifQ)[7]])
                            ELSE out]_vars

\* disconnect_stream has ended with no disconnection in it; the session is
\* streaming and a reading it took is on stdout
C20_Witness ==
  /\ pc = "streaming"
  /\ eventsClosed
  /\ disconnectEvent = None
  /\ sessions = {bound[1]}
  /\ value # None
  /\ Accepted(value[1])
  /\ out = <<HEADER_LINE, [spo2 |-> value[1][6], heartrate |-> value[1][7]]>>

====
